---- MODULE Spec2Model ----
(***************************************************************************)
(* Haswell platform clock controller (src/platform/haswell/clk.c).         *)
(*                                                                         *)
(* State: the per-domain clock data block clk_pdata, the SHIM CSR clock    *)
(* control register, the callers of the clock API with their position in   *)
(* clock_set_freq, and history variables (the notifier/register event      *)
(* trace, the completed calls, the last accessor results).                 *)
(***************************************************************************)
EXTENDS Integers, Sequences, FiniteSets, TLC

(* ------------------------------ bounds -------------------------------- *)

\* number of concurrent callers of the clock API
NumCallers == 2

\* total number of API operations started in one behaviour
MaxCalls == 2

\* width in bits of the modelled tick counter / uint64_t arithmetic
TickBits == 12

(* ------------------------- program constants -------------------------- *)

NUM_CLOCKS == 2

CLK_CPU == 0

CLK_SSP == 1

CPU_DEFAULT_IDX == 3

SSP_DEFAULT_IDX == 0

\* largest value of the tick type (ULONG_LONG_MAX at the modelled width)
ULONG_LONG_MAX == (2 ^ TickBits) - 1

\* the defined clock domains: the indices of clk_pdata->clk[]
Clocks == 0 .. (NUM_CLOCKS - 1)

\* domain identifiers a caller may pass: the defined ones and one that is
\* neither CLK_CPU nor CLK_SSP
ClockArgs == 0 .. NUM_CLOCKS

Callers == 1 .. NumCallers

\* requested frequencies: below, between, equal to and above table entries
HzValues == {100000000, 320000000, 320000001}

\* tick values a timer read or a caller's previous stamp may hold
TickValues == {13, 640, ULONG_LONG_MAX - 10}

\* what a read outside the allocated clk_pdata block may return
GarbageWords == {0, 777}

\* stands for the value of a read outside the block that nothing consumes
Indeterminate == -1

\* microsecond counts passed to clock_us_to_ticks
UsValues == {1, 3}

\* values the caller's *current slot may hold before clock_time_elapsed
OutValues == {7}

cpu_freq ==
  [i \in 0 .. 5 |->
     CASE i = 0 -> [freq |-> 32000000,  ticks_per_usec |-> 80,  fabric |-> 32000000,  enc |-> 6]
       [] i = 1 -> [freq |-> 80000000,  ticks_per_usec |-> 80,  fabric |-> 80000000,  enc |-> 2]
       [] i = 2 -> [freq |-> 160000000, ticks_per_usec |-> 160, fabric |-> 80000000,  enc |-> 1]
       [] i = 3 -> [freq |-> 320000000, ticks_per_usec |-> 320, fabric |-> 160000000, enc |-> 4]
       [] i = 4 -> [freq |-> 320000000, ticks_per_usec |-> 320, fabric |-> 80000000,  enc |-> 0]
       [] i = 5 -> [freq |-> 160000000, ticks_per_usec |-> 160, fabric |-> 160000000, enc |-> 5]]

ssp_freq ==
  [i \in 0 .. 0 |-> [freq |-> 24000000, ticks_per_usec |-> 24, fabric |-> 0, enc |-> 0]]

ARRAY_SIZE(table) == Cardinality(DOMAIN table)

\* the frequency table of a defined domain
TableOf(clock) == IF clock = CLK_CPU THEN cpu_freq ELSE ssp_freq

(* --------------------------- pure functions --------------------------- *)

RECURSIVE get_freq_scan(_, _, _, _)
get_freq_scan(table, size, hz, i) ==
  IF i < size
    THEN IF hz <= table[i].freq
           THEN i
           ELSE get_freq_scan(table, size, hz, i + 1)
    ELSE size - 1

\* the scan keeping the last qualifying entry instead of returning the first
get_freq_last(table, size, hz) ==
  LET hits == {i \in 0 .. (size - 1) : hz <= table[i].freq}
  IN IF hits # {} THEN CHOOSE i \in hits : \A j \in hits : j <= i ELSE size - 1

\* find lowest available frequency that is >= requested Hz
get_freq(table, size, hz) == get_freq_scan(table, size, hz, 0)

\* the difference taken without the wrapped branch
elapsed_ticks_nowrap(current, previous) == current - previous

\* the tick difference clock_time_elapsed divides, before reduction to the
\* width of the tick type
elapsed_ticks(current, previous) ==
  IF current >= previous
    THEN current - previous
    ELSE current + (ULONG_LONG_MAX - previous)

\* unsigned arithmetic of the tick type
WrapTick(x) == x % (2 ^ TickBits)

(* ------------------------------- state -------------------------------- *)

VARIABLES
  clk_pdata,  \* <<>> before init_platform_clocks, then [Clocks -> clk_data]
  csr,        \* SHIM_CSR: [dcs |-> clock select field, rest |-> other bits]
  pc,         \* per caller: position in clock_set_freq
  local,      \* per caller: clock, hz, notify_data, idx of the call in flight,
              \* its id and the number of calls completed when it started
  events,     \* trace of notifier events and register writes
  done,       \* completed clock_set_freq calls, in order of return
  ncalls,     \* operations started so far
  oob,        \* ids of the operations that accessed memory outside clk[]
  \* the most recent accessor call and its result, in the record of the
  \* accessor that was called; the other two records are NoCall
  gf,         \* clock_get_freq
  te,         \* clock_time_elapsed
  ut          \* clock_us_to_ticks

vars == <<clk_pdata, csr, pc, local, events, done, ncalls, oob, gf, te, ut>>

NoCall == [id |-> 0]

IdleLocal ==
  [clock |-> 0, hz |-> 0, id |-> 0, idx |-> 0, after |-> 0,
   notify_data |-> [old_freq |-> 0, old_ticks_per_usec |-> 0, freq |-> 0]]

initialised == DOMAIN clk_pdata # {}

Init ==
  /\ clk_pdata = <<>>
  /\ csr \in [dcs : {4}, rest : {1}]
  /\ pc = [p \in Callers |-> "idle"]
  /\ local = [p \in Callers |-> IdleLocal]
  /\ events = <<>>
  /\ done = <<>>
  /\ ncalls = 0
  /\ oob = {}
  /\ gf = NoCall
  /\ te = NoCall
  /\ ut = NoCall

(* --------------------------- initialisation --------------------------- *)

\* rzalloc: the zeroed block; spinlock_init: the locks free
ZeroedClkData == [freq |-> 0, ticks_per_usec |-> 0, lock |-> 0]

\* the CPU default taken from the first table entry
init_defaults_idx0 ==
  [c \in Clocks |->
     IF c = CLK_CPU
       THEN [ZeroedClkData EXCEPT !.freq = cpu_freq[0].freq,
                                  !.ticks_per_usec = cpu_freq[0].ticks_per_usec]
       ELSE [ZeroedClkData EXCEPT !.freq = ssp_freq[SSP_DEFAULT_IDX].freq,
                                  !.ticks_per_usec = ssp_freq[SSP_DEFAULT_IDX].ticks_per_usec]]

\* the SSP defaults left as allocated
init_defaults_unset ==
  [c \in Clocks |->
     IF c = CLK_CPU
       THEN [ZeroedClkData EXCEPT !.freq = cpu_freq[CPU_DEFAULT_IDX].freq,
                                  !.ticks_per_usec = cpu_freq[CPU_DEFAULT_IDX].ticks_per_usec]
       ELSE ZeroedClkData]

\* the block after "set defaults"
init_defaults ==
  [c \in Clocks |->
     IF c = CLK_CPU
       THEN [ZeroedClkData EXCEPT !.freq = cpu_freq[CPU_DEFAULT_IDX].freq,
                                  !.ticks_per_usec = cpu_freq[CPU_DEFAULT_IDX].ticks_per_usec]
       ELSE [ZeroedClkData EXCEPT !.freq = ssp_freq[SSP_DEFAULT_IDX].freq,
                                  !.ticks_per_usec = ssp_freq[SSP_DEFAULT_IDX].ticks_per_usec]]

init_platform_clocks ==
  /\ ~initialised
  /\ clk_pdata' = init_defaults
  /\ UNCHANGED <<csr, pc, local, events, done, ncalls, oob, gf, te, ut>>

(* --------------------------- clock_set_freq --------------------------- *)

\* the CPU table entry an encoding of the clock select field stands for
EntryOfEnc(enc) == CHOOSE t \in DOMAIN cpu_freq : cpu_freq[t].enc = enc

\* an entry of the event trace: the notifier payload or the value written,
\* with the request, the stored clock data and the operating point the
\* register selects at that moment
Event(p, kind, enc) ==
  [id |-> local[p].id, hz |-> local[p].hz, kind |-> kind,
   data |-> local[p].notify_data, enc |-> enc,
   cur_freq |-> clk_pdata[CLK_CPU].freq,
   cur_ticks_per_usec |-> clk_pdata[CLK_CPU].ticks_per_usec,
   hw_freq |-> cpu_freq[EntryOfEnc(csr.dcs)].freq,
   hw_ticks_per_usec |-> cpu_freq[EntryOfEnc(csr.dcs)].ticks_per_usec]

\* entry: notify_data.old_freq / old_ticks_per_usec are read before the lock
\* is taken; an identifier outside clk[] reads memory outside the block (the
\* values read are consumed only on the CLK_CPU path, so they are kept as
\* Indeterminate). The calling contexts are interchangeable: a new call is
\* made by the lowest one that is not inside clock_set_freq.
SetFreqCall(p) ==
  /\ initialised
  /\ pc[p] = "idle"
  /\ \A q \in Callers : q < p => pc[q] # "idle"
  /\ ncalls < MaxCalls
  /\ \E clock \in ClockArgs, hz \in HzValues :
       /\ local' = [local EXCEPT ![p] =
            [clock |-> clock, hz |-> hz, id |-> ncalls + 1, idx |-> 0,
             after |-> Len(done),
             notify_data |->
               [old_freq |-> IF clock \in Clocks THEN clk_pdata[clock].freq
                                                   ELSE Indeterminate,
                old_ticks_per_usec |->
                  IF clock \in Clocks THEN clk_pdata[clock].ticks_per_usec
                                       ELSE Indeterminate,
                freq |-> 0]]]
       /\ oob' = IF clock \in Clocks THEN oob ELSE oob \cup {ncalls + 1}
  /\ ncalls' = ncalls + 1
  /\ pc' = [pc EXCEPT ![p] = "lock"]
  /\ UNCHANGED <<clk_pdata, csr, events, done, gf, te, ut>>

\* spin_lock_irq on one lock shared by all domains
SpinLockIrq_shared(p) ==
  /\ pc[p] = "lock"
  /\ IF local[p].clock \in Clocks
       THEN /\ \A c \in Clocks : clk_pdata[c].lock = 0
            /\ clk_pdata' = [clk_pdata EXCEPT ![local[p].clock].lock = 1]
            /\ pc' = [pc EXCEPT ![p] = "switch"]
       ELSE /\ clk_pdata' = clk_pdata
            /\ \E acquired \in BOOLEAN :
                 pc' = [pc EXCEPT ![p] = IF acquired THEN "switch" ELSE "spin"]
  /\ UNCHANGED <<csr, local, events, done, ncalls, oob, gf, te, ut>>

\* spin_lock_irq that waits for the lock word but never sets it
SpinLockIrq_notaken(p) ==
  /\ pc[p] = "lock"
  /\ IF local[p].clock \in Clocks
       THEN /\ clk_pdata[local[p].clock].lock = 0
            /\ clk_pdata' = clk_pdata
            /\ pc' = [pc EXCEPT ![p] = "switch"]
       ELSE /\ clk_pdata' = clk_pdata
            /\ \E acquired \in BOOLEAN :
                 pc' = [pc EXCEPT ![p] = IF acquired THEN "switch" ELSE "spin"]
  /\ UNCHANGED <<csr, local, events, done, ncalls, oob, gf, te, ut>>

\* spin_lock_irq without waiting for the lock to be free
SpinLockIrq_nowait(p) ==
  /\ pc[p] = "lock"
  /\ IF local[p].clock \in Clocks
       THEN /\ clk_pdata' = [clk_pdata EXCEPT ![local[p].clock].lock = 1]
            /\ pc' = [pc EXCEPT ![p] = "switch"]
       ELSE /\ clk_pdata' = clk_pdata
            /\ \E acquired \in BOOLEAN :
                 pc' = [pc EXCEPT ![p] = IF acquired THEN "switch" ELSE "spin"]
  /\ UNCHANGED <<csr, local, events, done, ncalls, oob, gf, te, ut>>

\* spin_lock_irq(&clk_pdata->clk[clock].lock, flags): proceeds once the lock
\* word is free and takes it.  For an identifier outside clk[] the lock word
\* is memory outside the block: it is found free (and written) or found held
\* (the caller spins).
SpinLockIrq(p) ==
  /\ pc[p] = "lock"
  /\ IF local[p].clock \in Clocks
       THEN /\ clk_pdata[local[p].clock].lock = 0
            /\ clk_pdata' = [clk_pdata EXCEPT ![local[p].clock].lock = 1]
            /\ pc' = [pc EXCEPT ![p] = "switch"]
       ELSE /\ clk_pdata' = clk_pdata
            /\ \E acquired \in BOOLEAN :
                 pc' = [pc EXCEPT ![p] = IF acquired THEN "switch" ELSE "spin"]
  /\ UNCHANGED <<csr, local, events, done, ncalls, oob, gf, te, ut>>

\* CLOCK_NOTIFY_PRE suppressed when the target equals the stored frequency
NotifyPre_suppressed(p) ==
  /\ pc[p] = "switch"
  /\ local[p].clock = CLK_CPU
  /\ LET idx == get_freq(cpu_freq, ARRAY_SIZE(cpu_freq), local[p].hz)
         nd  == [local[p].notify_data EXCEPT !.freq = cpu_freq[idx].freq]
     IN /\ local' = [local EXCEPT ![p].idx = idx, ![p].notify_data = nd]
        /\ events' = IF nd.freq = nd.old_freq
                       THEN events
                       ELSE Append(events, [Event(p, "pre", -1) EXCEPT !.data = nd])
  /\ pc' = [pc EXCEPT ![p] = "write"]
  /\ UNCHANGED <<clk_pdata, csr, done, ncalls, oob, gf, te, ut>>

\* case CLK_CPU: select the table entry, fill notify_data.freq, CLOCK_NOTIFY_PRE
NotifyPre(p) ==
  /\ pc[p] = "switch"
  /\ local[p].clock = CLK_CPU
  /\ LET idx == get_freq(cpu_freq, ARRAY_SIZE(cpu_freq), local[p].hz)
         nd  == [local[p].notify_data EXCEPT !.freq = cpu_freq[idx].freq]
     IN /\ local' = [local EXCEPT ![p].idx = idx, ![p].notify_data = nd]
        /\ events' = Append(events, [Event(p, "pre", -1) EXCEPT !.data = nd])
  /\ pc' = [pc EXCEPT ![p] = "write"]
  /\ UNCHANGED <<clk_pdata, csr, done, ncalls, oob, gf, te, ut>>

\* case CLK_SSP handled like CLK_CPU: the pre-change notification is sent
SwitchDefault_notifies(p) ==
  /\ pc[p] = "switch"
  /\ local[p].clock # CLK_CPU
  /\ events' = IF local[p].clock = CLK_SSP
                 THEN Append(events, Event(p, "pre", -1))
                 ELSE events
  /\ pc' = [pc EXCEPT ![p] = "unlock"]
  /\ UNCHANGED <<clk_pdata, csr, local, done, ncalls, oob, gf, te, ut>>

\* case CLK_SSP / default: break
SwitchDefault(p) ==
  /\ pc[p] = "switch"
  /\ local[p].clock # CLK_CPU
  /\ pc' = [pc EXCEPT ![p] = "unlock"]
  /\ UNCHANGED <<clk_pdata, csr, local, events, done, ncalls, oob, gf, te, ut>>

\* the register written as a whole instead of the clock select field only
RegUpdate_clobber(p) ==
  /\ pc[p] = "write"
  /\ csr' = [dcs |-> cpu_freq[local[p].idx].enc, rest |-> 0]
  /\ events' = Append(events, Event(p, "write", cpu_freq[local[p].idx].enc))
  /\ pc' = [pc EXCEPT ![p] = "post"]
  /\ UNCHANGED <<clk_pdata, local, done, ncalls, oob, gf, te, ut>>

\* io_reg_update_bits(SHIM_BASE + SHIM_CSR, SHIM_CSR_DCS_MASK,
\*                    SHIM_CSR_DCS(cpu_freq[idx].enc))
RegUpdate(p) ==
  /\ pc[p] = "write"
  /\ csr' = [csr EXCEPT !.dcs = cpu_freq[local[p].idx].enc]
  /\ events' = Append(events, Event(p, "write", cpu_freq[local[p].idx].enc))
  /\ pc' = [pc EXCEPT ![p] = "post"]
  /\ UNCHANGED <<clk_pdata, local, done, ncalls, oob, gf, te, ut>>

\* the stored clock data updated to the new operating point after the
\* post-change notification
NotifyPost_updates(p) ==
  /\ pc[p] = "post"
  /\ events' = Append(events, Event(p, "post", -1))
  /\ clk_pdata' = [clk_pdata EXCEPT
                     ![CLK_CPU].freq = cpu_freq[local[p].idx].freq,
                     ![CLK_CPU].ticks_per_usec = cpu_freq[local[p].idx].ticks_per_usec]
  /\ pc' = [pc EXCEPT ![p] = "unlock"]
  /\ UNCHANGED <<csr, local, done, ncalls, oob, gf, te, ut>>

\* notifier_event(NOTIFIER_ID_CPU_FREQ, CLOCK_NOTIFY_POST, &notify_data)
NotifyPost(p) ==
  /\ pc[p] = "post"
  /\ events' = Append(events, Event(p, "post", -1))
  /\ pc' = [pc EXCEPT ![p] = "unlock"]
  /\ UNCHANGED <<clk_pdata, csr, local, done, ncalls, oob, gf, te, ut>>

\* spin_unlock_irq(&clk_pdata->clk[clock].lock, flags)
SpinUnlockIrq(p) ==
  /\ pc[p] = "unlock"
  /\ clk_pdata' = IF local[p].clock \in Clocks
                    THEN [clk_pdata EXCEPT ![local[p].clock].lock = 0]
                    ELSE clk_pdata
  /\ pc' = [pc EXCEPT ![p] = "ret"]
  /\ UNCHANGED <<csr, local, events, done, ncalls, oob, gf, te, ut>>

\* return clk_pdata->clk[clock].freq
SetFreqReturn(p) ==
  /\ pc[p] = "ret"
  /\ \E g \in GarbageWords :
       done' = Append(done,
                 [id |-> local[p].id, after |-> local[p].after, clock |-> local[p].clock,
                  hz |-> local[p].hz,
                  ret |-> IF local[p].clock \in Clocks
                            THEN clk_pdata[local[p].clock].freq ELSE g])
  /\ pc' = [pc EXCEPT ![p] = "idle"]
  /\ local' = [local EXCEPT ![p] = IdleLocal]
  /\ UNCHANGED <<clk_pdata, csr, events, ncalls, oob, gf, te, ut>>

(* ----------------------------- accessors ------------------------------ *)

\* return clk_pdata->clk[clock].freq
clock_get_freq ==
  /\ initialised
  /\ ncalls < MaxCalls
  /\ \E clock \in ClockArgs, g \in GarbageWords :
       /\ gf' = [id |-> ncalls + 1, clock |-> clock,
                 ret |-> IF clock \in Clocks THEN clk_pdata[clock].freq ELSE g]
       /\ oob' = IF clock \in Clocks THEN oob ELSE oob \cup {ncalls + 1}
  /\ te' = NoCall
  /\ ut' = NoCall
  /\ ncalls' = ncalls + 1
  /\ UNCHANGED <<clk_pdata, csr, pc, local, events, done>>

\* the default case treated like CLK_SSP: the platform timer is read and
\* stored to *current for any identifier
TimeElapsed_nodefault(id, clock, previous, _current, out0) ==
  LET c == IF clock \in Clocks THEN clock ELSE CLK_SSP IN
    [id |-> id, clock |-> clock, previous |-> previous,
     timer |-> IF clock = CLK_CPU THEN "system" ELSE "platform",
     current |-> _current, out0 |-> out0, out |-> _current, wrote |-> TRUE,
     raw |-> elapsed_ticks(_current, previous),
     divisor |-> clk_pdata[c].ticks_per_usec,
     ret |-> IF clk_pdata[c].ticks_per_usec = 0
               THEN -1
               ELSE WrapTick(elapsed_ticks(_current, previous))
                      \div clk_pdata[c].ticks_per_usec]

\* the outcome of clock_time_elapsed(clock, previous, &out) when the timer
\* reads _current and out holds out0: the timer of a defined domain is read
\* (arch_timer_get_system for CLK_CPU, platform_timer_get for CLK_SSP),
\* stored to *current and the difference to previous is divided by the
\* domain's ticks_per_usec; any other identifier returns 0 at once
TimeElapsed(id, clock, previous, _current, out0) ==
  IF clock \in Clocks
    THEN [id |-> id, clock |-> clock, previous |-> previous,
          timer |-> IF clock = CLK_CPU THEN "system" ELSE "platform",
          current |-> _current, out0 |-> out0, out |-> _current, wrote |-> TRUE,
          raw |-> elapsed_ticks(_current, previous),
          divisor |-> clk_pdata[clock].ticks_per_usec,
          \* -1 stands for the outcome of a division by zero
          ret |-> IF clk_pdata[clock].ticks_per_usec = 0
                    THEN -1
                    ELSE WrapTick(elapsed_ticks(_current, previous))
                           \div clk_pdata[clock].ticks_per_usec]
    ELSE [id |-> id, clock |-> clock, previous |-> previous,
          timer |-> "none", current |-> 0, out0 |-> out0, out |-> out0,
          wrote |-> FALSE, raw |-> 0, divisor |-> 1, ret |-> 0]

clock_time_elapsed ==
  /\ initialised
  /\ ncalls < MaxCalls
  /\ \E clock \in ClockArgs, previous \in TickValues, _current \in TickValues,
        out0 \in OutValues :
       te' = TimeElapsed(ncalls + 1, clock, previous, _current, out0)
  /\ gf' = NoCall
  /\ ut' = NoCall
  /\ ncalls' = ncalls + 1
  /\ UNCHANGED <<clk_pdata, csr, pc, local, events, done, oob>>

\* return clk_pdata->clk[clock].ticks_per_usec * us
clock_us_to_ticks ==
  /\ initialised
  /\ ncalls < MaxCalls
  /\ \E clock \in ClockArgs, us \in UsValues, g \in GarbageWords :
       /\ ut' = [id |-> ncalls + 1, clock |-> clock, us |-> us,
                 ret |-> WrapTick((IF clock \in Clocks
                                     THEN clk_pdata[clock].ticks_per_usec
                                     ELSE g) * us)]
       /\ oob' = IF clock \in Clocks THEN oob ELSE oob \cup {ncalls + 1}
  /\ gf' = NoCall
  /\ te' = NoCall
  /\ ncalls' = ncalls + 1
  /\ UNCHANGED <<clk_pdata, csr, pc, local, events, done>>

\* clock_enable(clock): every case of the switch breaks, so the call does
\* the same, nothing, for every identifier
clock_enable ==
  /\ ClockArgs # {}
  /\ UNCHANGED vars

\* clock_disable(clock): every case of the switch breaks, so the call does
\* the same, nothing, for every identifier
clock_disable ==
  /\ ClockArgs # {}
  /\ UNCHANGED vars

(* --------------------------- specification ---------------------------- *)

Next ==
  \/ init_platform_clocks
  \/ \E p \in Callers : SetFreqCall(p)
  \/ \E p \in Callers : SpinLockIrq(p)
  \/ \E p \in Callers : NotifyPre(p)
  \/ \E p \in Callers : SwitchDefault(p)
  \/ \E p \in Callers : RegUpdate(p)
  \/ \E p \in Callers : NotifyPost(p)
  \/ \E p \in Callers : SpinUnlockIrq(p)
  \/ \E p \in Callers : SetFreqReturn(p)
  \/ clock_get_freq
  \/ clock_time_elapsed
  \/ clock_us_to_ticks
  \/ clock_enable
  \/ clock_disable

Spec == Init /\ [][Next]_vars

\* the steps of a clock_set_freq call in flight on caller p
CallerStep(p) ==
  \/ SpinLockIrq(p)
  \/ NotifyPre(p)
  \/ SwitchDefault(p)
  \/ RegUpdate(p)
  \/ NotifyPost(p)
  \/ SpinUnlockIrq(p)
  \/ SetFreqReturn(p)

\* fair scheduling: a caller whose next step stays possible takes it (the
\* notifier callbacks and the register update return; a caller spinning on a
\* lock that stays free takes it)
FairSpec == Spec /\ \A p \in Callers : WF_vars(CallerStep(p))

(* ------------------------------ helpers ------------------------------- *)

SetMin(S) == CHOOSE x \in S : \A y \in S : x <= y

SetMax(S) == CHOOSE x \in S : \A y \in S : x >= y

TableFreqs(table) == {table[i].freq : i \in DOMAIN table}

\* positions of the events of call id, in trace order
EventsOf(id) == SelectSeq(events, LAMBDA e : e.id = id)

KindsOf(id) == [k \in 1 .. Len(EventsOf(id)) |-> EventsOf(id)[k].kind]

InCritical(p) == pc[p] \in {"switch", "write", "post", "unlock"}

(* ------------------------------- claims ------------------------------- *)

\* C1: every completed set_frequency call on a defined domain returned a
\* frequency of that domain's table, namely the smallest table frequency
\* >= the requested Hz, or the table's maximum when the request exceeds
\* every entry.
C1_ReturnsNearestTableFreq ==
  \A k \in 1 .. Len(done) :
    done[k].clock \in Clocks =>
      LET freqs == TableFreqs(TableOf(done[k].clock))
          ge    == {f \in freqs : f >= done[k].hz}
      IN /\ done[k].ret \in freqs
         /\ done[k].ret = IF ge # {} THEN SetMin(ge) ELSE SetMax(freqs)

\* the pre-notification, the register write and the post-notification of
\* every CPU-domain call occur in this order, once each; new is the frequency
\* of the operating point that is programmed and the post-notification
\* carries the payload of the pre-notification
EventOrder ==
  \A k \in 1 .. Len(events) :
    LET e == events[k] IN
      /\ e.kind = "pre" => \A j \in 1 .. (k - 1) : events[j].id # e.id
      /\ e.kind = "write" =>
           /\ \E i \in 1 .. (k - 1) :
                /\ events[i].id = e.id
                /\ events[i].kind = "pre"
                /\ \E t \in DOMAIN cpu_freq :
                     cpu_freq[t].enc = e.enc /\ cpu_freq[t].freq = events[i].data.freq
           /\ \A j \in 1 .. (k - 1) :
                events[j].id = e.id => events[j].kind = "pre"
      /\ e.kind = "post" =>
           /\ \E i \in 1 .. (k - 1), w \in 1 .. (k - 1) :
                /\ i < w
                /\ events[i].id = e.id /\ events[i].kind = "pre"
                /\ events[w].id = e.id /\ events[w].kind = "write"
                /\ events[i].data = e.data
           /\ \A j \in 1 .. (k - 1) :
                events[j].id = e.id => events[j].kind # "post"

\* C2: in a CPU-domain call that moves the domain from frequency A to target
\* B the pre-notification, the register write and the post-notification
\* occur in this order; the pre-notification carries old = A, the frequency
\* the domain runs at before the write, with A's ticks-per-microsecond, and
\* new = B, and the post-notification carries the identical payload.
C2_NotificationOrdering ==
  /\ EventOrder
  /\ \A k \in 1 .. Len(events) :
       events[k].kind = "pre" =>
         /\ events[k].data.old_freq = events[k].hw_freq
         /\ events[k].data.old_ticks_per_usec = events[k].hw_ticks_per_usec

\* the part of C2 the code keeps: the order of the three events, and a
\* payload whose old values are the stored clock data
C2_OrderAndStoredPayload ==
  /\ EventOrder
  /\ \A k \in 1 .. Len(events) :
       events[k].kind = "pre" =>
         /\ events[k].data.old_freq = events[k].cur_freq
         /\ events[k].data.old_ticks_per_usec = events[k].cur_ticks_per_usec

\* C2 witness: a completed transition from A to a different B
C2_Witness ==
  \E k \in 1 .. Len(events) :
    /\ events[k].kind = "post"
    /\ events[k].data.freq # events[k].data.old_freq

\* C3: with concurrent callers the event trace is a concatenation of
\* (pre, write, post) triples, each triple of a single call and each call
\* producing one triple: no event of one call lies between the pre- and
\* post-notification of another.
C3_TriplesNotInterleaved ==
  /\ \A k \in 1 .. Len(events) :
       /\ events[k].kind = <<"pre", "write", "post">>[((k - 1) % 3) + 1]
       /\ (k - 1) % 3 # 0 => events[k].id = events[k - 1].id
  /\ \A i, j \in 1 .. Len(events) :
       (i < j /\ events[i].kind = "pre" /\ events[j].kind = "pre")
         => events[i].id # events[j].id

\* C3 witness: two CPU calls that overlapped (the second to return had
\* started before the first returned) have both delivered their triple
C3_Witness ==
  /\ Len(events) = 6
  /\ Len(done) >= 2
  /\ done[1].clock = CLK_CPU /\ done[2].clock = CLK_CPU
  /\ done[2].after = 0

\* C4: for each clock domain at most one call is between the lock acquire
\* and the lock release.
C4_OneInFlightPerDomain ==
  \A c \in Clocks :
    Cardinality({p \in Callers : InCritical(p) /\ local[p].clock = c}) <= 1

\* C4 witness: one caller inside the CPU critical section while another
\* waits for the CPU lock
C4_Witness ==
  \E p, q \in Callers :
    /\ p # q
    /\ InCritical(p) /\ local[p].clock = CLK_CPU
    /\ pc[q] = "lock" /\ local[q].clock = CLK_CPU

\* C5: after init_platform_clocks and before any other operation the stored
\* frequency and ticks-per-microsecond of each domain are those of the
\* table entry at its default index (320000000 for CPU, 24000000 for SSP),
\* and get_frequency as the first operation returns that frequency.
C5_DefaultsAfterInit ==
  /\ (initialised /\ ncalls = 0) =>
       /\ clk_pdata[CLK_CPU].freq = 320000000
       /\ clk_pdata[CLK_SSP].freq = 24000000
       /\ \A c \in Clocks :
            LET def == IF c = CLK_CPU THEN cpu_freq[CPU_DEFAULT_IDX]
                                      ELSE ssp_freq[SSP_DEFAULT_IDX]
            IN /\ clk_pdata[c].freq = def.freq
               /\ clk_pdata[c].ticks_per_usec = def.ticks_per_usec
  /\ (gf.id = 1 /\ gf.clock = CLK_CPU) => gf.ret = 320000000
  /\ (gf.id = 1 /\ gf.clock = CLK_SSP) => gf.ret = 24000000

\* C5 witness: get_frequency on the CPU domain was the first operation
C5_Witness == gf.id = 1 /\ gf.clock = CLK_CPU /\ ncalls = 1

\* the two calls done[k], done[k+1] were made in a row: the second is the
\* next operation started, and it started after the first had returned
InARow(k) ==
  /\ done[k + 1].after = k
  /\ done[k + 1].id = done[k].id + 1
  /\ done[k + 1].clock = done[k].clock
  /\ done[k + 1].hz = done[k].hz

\* C6: two set_frequency calls in a row on the same defined domain with the
\* same hz return the same value, and on the CPU domain each of the two
\* issues its own pre-notification, register write and post-notification.
C6_RepeatedCall ==
  \A k \in 1 .. (Len(done) - 1) :
    (InARow(k) /\ done[k].clock \in Clocks) =>
      /\ done[k + 1].ret = done[k].ret
      /\ done[k].clock = CLK_CPU =>
           /\ KindsOf(done[k].id) = <<"pre", "write", "post">>
           /\ KindsOf(done[k + 1].id) = <<"pre", "write", "post">>

\* C6 witness: two CPU calls in a row with the same hz, the second of which
\* changes nothing
C6_Witness ==
  /\ Len(done) >= 2
  /\ InARow(1)
  /\ done[1].clock = CLK_CPU
  /\ \E k \in 1 .. Len(events) :
       events[k].id = done[2].id /\ events[k].data.freq = events[k].data.old_freq

\* C7: a CPU-domain request above every table frequency is clamped to the
\* table's maximum: the notifications announce 320000000 and the register is
\* programmed with the encoding of an entry of that frequency.
C7_ClampedToMaximum ==
  \A k \in 1 .. Len(events) :
    (\A f \in TableFreqs(cpu_freq) : events[k].hz > f) =>
      /\ events[k].data.freq = SetMax(TableFreqs(cpu_freq))
      /\ events[k].data.freq = 320000000
      /\ events[k].kind = "write" =>
           \E t \in DOMAIN cpu_freq :
             cpu_freq[t].enc = events[k].enc /\ cpu_freq[t].freq = 320000000

\* C8: for a defined domain elapsed_microseconds returns
\* (current - previous) / ticks_per_microsecond when current >= previous and
\* (current + (MAX - previous)) / ticks_per_microsecond when current <
\* previous, by truncating division, and the intermediate sum stays within
\* the counter width.
C8_ElapsedFormula ==
  (te.id # 0 /\ te.clock \in Clocks) =>
    /\ te.divisor = clk_pdata[te.clock].ticks_per_usec
    /\ te.current >= te.previous =>
         te.ret = (te.current - te.previous) \div te.divisor
    /\ te.current < te.previous =>
         te.ret = (te.current + (ULONG_LONG_MAX - te.previous)) \div te.divisor
    /\ te.raw >= 0
    /\ te.raw <= ULONG_LONG_MAX

\* C8 witness: a wrapped reading with a non-zero result
C8_Witness ==
  te.id # 0 /\ te.clock \in Clocks /\ te.current < te.previous /\ te.ret > 0

\* C9: a completed set_frequency call with an identifier that is neither CPU
\* nor SSP emitted no event, changed no domain's stored state and accessed
\* no memory outside the per-domain state array.
C9_InvalidDomainNoOp ==
  \A k \in 1 .. Len(done) :
    done[k].clock \notin Clocks =>
      /\ EventsOf(done[k].id) = <<>>
      /\ \A c \in Clocks :
           /\ clk_pdata[c].freq = init_defaults[c].freq
           /\ clk_pdata[c].ticks_per_usec = init_defaults[c].ticks_per_usec
      /\ done[k].id \notin oob

\* C10: once initialised every domain's ticks_per_microsecond is > 0, and
\* every division in elapsed_microseconds had a divisor > 0.
C10_TicksPositive ==
  /\ initialised => \A c \in Clocks : clk_pdata[c].ticks_per_usec > 0
  /\ (te.id # 0 /\ te.clock \in Clocks) => te.divisor > 0

\* C10 witness: elapsed_microseconds on each kind of domain after a
\* set_frequency call has completed
C10_Witness ==
  /\ te.id # 0 /\ te.clock = CLK_SSP
  /\ Len(done) >= 1 /\ done[1].clock = CLK_SSP

\* C11: the frequency table of every domain the clock data block holds is
\* non-empty and sorted ascending by frequency: for all indices i < j,
\* table[i].freq <= table[j].freq.
C11_TablesSortedAscending ==
  \A c \in DOMAIN clk_pdata :
    LET table == TableOf(c) IN
      /\ ARRAY_SIZE(table) > 0
      /\ \A i, j \in DOMAIN table : i < j => table[i].freq <= table[j].freq

\* C12: the index selected for a CPU-domain request is the smallest index i
\* with hz <= cpu_freq[i].freq, or size - 1 if there is none; a request of
\* 100000000 selects index 2 (160000000, encoding 1) and never index 5.
C12_SelectsFirstQualifying ==
  /\ \A p \in Callers :
       (pc[p] \in {"write", "post", "unlock", "ret"} /\ local[p].clock = CLK_CPU) =>
         LET hits == {i \in DOMAIN cpu_freq : local[p].hz <= cpu_freq[i].freq}
         IN /\ local[p].idx = IF hits # {} THEN SetMin(hits)
                                           ELSE ARRAY_SIZE(cpu_freq) - 1
            /\ local[p].hz = 100000000 => local[p].idx = 2
  /\ \A k \in 1 .. Len(events) :
       (events[k].hz = 100000000 /\ events[k].kind = "write") =>
         /\ events[k].enc = 1
         /\ events[k].data.freq = 160000000

\* C12 witness: a request of 100000000 has been programmed, and a request
\* above every entry has selected the last index
C12_Witness ==
  /\ \E k \in 1 .. Len(events) : events[k].hz = 100000000 /\ events[k].kind = "write"
  /\ \E p \in Callers :
       pc[p] = "write" /\ local[p].hz = 320000001 /\ local[p].idx = 5

\* the register writes of call id in the event trace
WritesOf(id) == {k \in 1 .. Len(events) : events[k].id = id /\ events[k].kind = "write"}

\* a step appends a register write to the event trace
WriteStep ==
  /\ Len(events') = Len(events) + 1
  /\ events'[Len(events')].kind = "write"

\* C13: each CPU-domain call performs exactly one register update; the update
\* sets the clock select field to the encoding of the table entry whose
\* frequency the call's notification announces, and no step changes a bit
\* outside the clock select field.
C13_RegisterUpdate ==
  /\ [](\A k \in 1 .. Len(done) :
          done[k].clock = CLK_CPU => Cardinality(WritesOf(done[k].id)) = 1)
  /\ [][/\ csr'.rest = csr.rest
        /\ csr'.dcs # csr.dcs => WriteStep
        /\ WriteStep =>
             LET w == events'[Len(events')] IN
               /\ csr'.dcs = w.enc
               /\ \E i \in 1 .. Len(events), t \in DOMAIN cpu_freq :
                    /\ events[i].id = w.id /\ events[i].kind = "pre"
                    /\ cpu_freq[t].enc = w.enc
                    /\ cpu_freq[t].freq = events[i].data.freq]_vars

\* C13 witness: a completed CPU call has changed the clock select field
C13_Witness ==
  /\ Len(done) >= 1 /\ done[1].clock = CLK_CPU
  /\ csr.dcs = 1 /\ csr.rest = 1

\* a step of caller p that belongs to a set_frequency call on the SSP domain
SspStep(p) ==
  /\ pc'[p] # pc[p]
  /\ \/ pc[p] # "idle" /\ local[p].clock = CLK_SSP
     \/ pc[p] = "idle" /\ local'[p].clock = CLK_SSP

\* C14: set_frequency on the SSP domain is a no-op for every hz: its steps
\* acquire and release the SSP lock, emit no notification, write no register,
\* leave the stored frequency and ticks-per-microsecond of both domains (and
\* the CPU lock) unchanged, and it returns the SSP domain's stored frequency.
C14_SspNoOp ==
  [][\A p \in Callers :
       SspStep(p) =>
         /\ events' = events
         /\ csr' = csr
         /\ \A c \in Clocks :
              /\ clk_pdata'[c].freq = clk_pdata[c].freq
              /\ clk_pdata'[c].ticks_per_usec = clk_pdata[c].ticks_per_usec
         /\ clk_pdata'[CLK_CPU].lock = clk_pdata[CLK_CPU].lock
         /\ pc[p] = "idle" => pc'[p] = "lock"
         /\ pc[p] = "lock" =>
              /\ pc'[p] = "switch"
              /\ clk_pdata[CLK_SSP].lock = 0 /\ clk_pdata'[CLK_SSP].lock = 1
         /\ pc[p] = "switch" => pc'[p] = "unlock"
         /\ pc[p] = "unlock" =>
              /\ pc'[p] = "ret"
              /\ clk_pdata[CLK_SSP].lock = 1 /\ clk_pdata'[CLK_SSP].lock = 0
         /\ pc[p] = "ret" =>
              /\ pc'[p] = "idle"
              /\ Len(done') = Len(done) + 1
              /\ done'[Len(done')].clock = CLK_SSP
              /\ done'[Len(done')].ret = clk_pdata[CLK_SSP].freq
         /\ pc[p] \notin {"post", "write", "spin"}]_vars

\* C14 witness: an SSP call for a request above the SSP table has returned
C14_Witness ==
  \E k \in 1 .. Len(done) :
    /\ done[k].clock = CLK_SSP
    /\ done[k].hz = 320000001
    /\ done[k].ret = 24000000

\* C15: when the counter has wrapped once (current < previous) the tick
\* difference elapsed_microseconds divides is the number of increments from
\* previous to current, (current - previous) mod 2^W, and the result is that
\* number divided by ticks_per_microsecond.
C15_WrappedDifferenceExact ==
  (te.id # 0 /\ te.clock \in Clocks /\ te.current < te.previous) =>
    /\ WrapTick(te.raw) = (te.current - te.previous) % (2 ^ TickBits)
    /\ te.ret = ((te.current - te.previous) % (2 ^ TickBits)) \div te.divisor

\* the same claim for the returned microseconds alone
C15_WrappedResultExact ==
  (te.id # 0 /\ te.clock \in Clocks /\ te.current < te.previous) =>
    te.ret = ((te.current - te.previous) % (2 ^ TickBits)) \div te.divisor

\* the lock of every defined domain is free whenever no call is between the
\* acquire and the release on that domain
LockFreeWhenIdle ==
  \A c \in DOMAIN clk_pdata :
    (\A p \in Callers : ~(InCritical(p) /\ local[p].clock = c))
      => clk_pdata[c].lock = 0

\* C16: every set_frequency call releases the lock it acquired on every path
\* (CPU, SSP and the default branch), so a domain's lock is free whenever no
\* call is in flight on it, and under fair scheduling every call eventually
\* acquires the lock and completes.
C16_LockReleasedAndCallsComplete ==
  /\ []LockFreeWhenIdle
  /\ \A p \in Callers : [](pc[p] # "idle" => <>(pc[p] = "idle"))

\* the same for the calls on the defined domains (CPU and SSP)
C16_DefinedDomainsComplete ==
  /\ []LockFreeWhenIdle
  /\ \A p \in Callers :
       []((pc[p] # "idle" /\ local[p].clock \in Clocks) => <>(pc[p] = "idle"))

\* the locks of the defined domains that are held
HeldLocks == {c \in DOMAIN clk_pdata : clk_pdata[c].lock = 1}

\* C17: the domain locks are independent: a held lock is held by a call on
\* that very domain, a caller whose own domain's lock is free can take it
\* whatever the state of the other lock, and no call holds two locks (there
\* are as many held locks as calls inside a critical section).
C17_LocksIndependent ==
  /\ \A c \in DOMAIN clk_pdata :
       clk_pdata[c].lock = 1 <=>
         \E p \in Callers : InCritical(p) /\ local[p].clock = c
  /\ \A p \in Callers :
       (/\ pc[p] = "lock"
        /\ local[p].clock \in Clocks
        /\ clk_pdata[local[p].clock].lock = 0) => ENABLED SpinLockIrq(p)
  /\ Cardinality(HeldLocks) =
       Cardinality({p \in Callers : InCritical(p) /\ local[p].clock \in Clocks})

\* C17 witness: an SSP call is inside its critical section, about to leave
\* it, while a CPU transition is between its pre-notification and its
\* register write
C17_Witness ==
  \E p, q \in Callers :
    /\ pc[p] = "write" /\ local[p].clock = CLK_CPU
    /\ pc[q] = "unlock" /\ local[q].clock = CLK_SSP

\* at least two CPU-domain calls were made, and every call has returned
CpuCallsCompleted ==
  /\ \A p \in Callers : pc[p] = "idle"
  /\ Cardinality({k \in 1 .. Len(done) : done[k].clock = CLK_CPU}) >= 2

\* the clock select field holds the encoding written by the call whose
\* critical section ran last
RegisterMatchesLastCall ==
  CpuCallsCompleted => csr.dcs = events[Len(events)- 1].enc

\* C18: after N concurrent CPU-domain calls have all completed, the clock
\* select field holds the encoding of the table entry selected by the call
\* whose critical section ran last, and the frequency get_frequency reports
\* is that same entry's frequency.
C18_FinalStateMatchesLastCall ==
  CpuCallsCompleted =>
    LET w == events[Len(events) - 1] IN
      /\ w.kind = "write"
      /\ csr.dcs = w.enc
      /\ w.enc = cpu_freq[get_freq(cpu_freq, ARRAY_SIZE(cpu_freq), w.hz)].enc
      /\ clk_pdata[CLK_CPU].freq = cpu_freq[EntryOfEnc(w.enc)].freq

\* the table entry a defined domain is initialised from
DefaultEntry(c) ==
  IF c = CLK_CPU THEN cpu_freq[CPU_DEFAULT_IDX] ELSE ssp_freq[SSP_DEFAULT_IDX]

\* C19: after initialisation no operation changes a domain's stored
\* frequency or ticks-per-microsecond: in every reachable state they are the
\* defaults written by init_platform_clocks, every set_frequency call on a
\* defined domain returned that domain's default frequency and every
\* notification carries the default as old frequency.
C19_StoredStateNeverChanges ==
  /\ \A c \in DOMAIN clk_pdata :
       /\ clk_pdata[c].freq = DefaultEntry(c).freq
       /\ clk_pdata[c].ticks_per_usec = DefaultEntry(c).ticks_per_usec
  /\ \A k \in 1 .. Len(done) :
       done[k].clock \in Clocks => done[k].ret = DefaultEntry(done[k].clock).freq
  /\ (gf.id # 0 /\ gf.clock \in Clocks) => gf.ret = DefaultEntry(gf.clock).freq
  /\ (ut.id # 0 /\ ut.clock \in Clocks) =>
       ut.ret = WrapTick(DefaultEntry(ut.clock).ticks_per_usec * ut.us)
  /\ \A k \in 1 .. Len(events) :
       events[k].kind \in {"pre", "post"} =>
         /\ events[k].data.old_freq = DefaultEntry(CLK_CPU).freq
         /\ events[k].data.old_ticks_per_usec = DefaultEntry(CLK_CPU).ticks_per_usec

\* C19 witness: a second CPU call made after a first one had programmed
\* 160000000 has returned
C19_Witness ==
  /\ Len(done) >= 2
  /\ done[1].clock = CLK_CPU /\ done[1].hz = 100000000
  /\ done[2].clock = CLK_CPU /\ done[2].after = 1
  /\ Len(events) = 6

\* C20: elapsed_microseconds stores the tick value it read to the caller's
\* output exactly when the domain is CPU (system timer) or SSP (platform
\* timer); for any other identifier it returns 0, reads no timer and no
\* domain state and leaves the caller's output as it was.
C20_OutputWrittenIffDefinedDomain ==
  te.id # 0 =>
    /\ te.wrote <=> te.clock \in {CLK_CPU, CLK_SSP}
    /\ te.clock = CLK_CPU => (te.timer = "system" /\ te.out = te.current)
    /\ te.clock = CLK_SSP => (te.timer = "platform" /\ te.out = te.current)
    /\ te.clock \notin {CLK_CPU, CLK_SSP} =>
         /\ te.ret = 0
         /\ te.timer = "none"
         /\ te.out = te.out0
         /\ te.id \notin oob

\* C20 witness: elapsed_microseconds was called with an identifier that is
\* neither CPU nor SSP
C20_Witness ==
  te.id # 0 /\ te.clock \notin Clocks /\ te.ret = 0 /\ te.out = te.out0

====
